---- MODULE Spec2Model ----
(***************************************************************************)
(* Model of the control loop of OKXAutoSwapBot (src/bot.js): start(),      *)
(* shouldTrade(), performSwap(), executeSwap(), checkBalance(),            *)
(* getSwapQuote(), sleep() and stop().                                     *)
(*                                                                         *)
(* JavaScript is single threaded: the code between two awaits of real I/O  *)
(* (an RPC, an HTTP request, a timer) runs to completion.  One action of   *)
(* the model is the resumption of start() after such an await, up to the   *)
(* next one.  stop() runs from another event-loop task, hence only while   *)
(* start() is suspended at an await.                                       *)
(***************************************************************************)
EXTENDS Integers, Sequences, FiniteSets, TLC

VARIABLES
    config,         \* botConfig handed to the constructor
    maxDailyTrades, \* this.maxDailyTrades
    isRunning,      \* this.isRunning
    tradeCount,     \* this.tradeCount
    pc,             \* position of start()
    timer,          \* ms of the pending setTimeout of sleep(), 0 if none
    balResp,        \* outcome of connection.getBalance in this tick
    quoteResp,      \* outcome of the /quote request of shouldTrade in this tick
    stResult,       \* completion of shouldTrade in this tick
    swapQuote,      \* outcome of the /quote request of performSwap in this tick
    psResult,       \* completion of performSwap in this tick
    calls,          \* history: network requests issued in this tick
    waitLog,        \* history: sleeps completed since the last evaluation or trade ended
    lastTick,       \* history: how the previous activity of the loop ended
    stopRequested,  \* history: stop() was called during this run
    stopInEval,     \* history: stop() was called while shouldTrade of this tick was in flight
    stopAt,         \* history: position of start() at the first stop() of this run
    psCalls,        \* history: invocations of performSwap in this tick
    builtFrom,      \* the quote handed to executeSwap in this tick
    confirmResp,    \* outcome of connection.confirmTransaction in this tick
    evalsInFlight,  \* calls of shouldTrade that have not returned yet
    tradesInFlight, \* calls of performSwap that have not completed yet
    confirmedOk,    \* history: broadcast transactions confirmed without error in this run
    failedBroadcasts \* history: broadcast transactions not confirmed, counted up to MaxFailedBroadcasts

vars == <<config, maxDailyTrades, isRunning, tradeCount, pc, timer, balResp,
          quoteResp, stResult, swapQuote, psResult, calls, waitLog, lastTick,
          stopRequested, stopInEval, stopAt, psCalls, builtFrom, confirmResp,
          evalsInFlight, tradesInFlight, confirmedOk, failedBroadcasts>>

----------------------------------------------------------------------------
(* Bounds and input sets *)

\* largest maxDailyTrades a configuration of the model sets explicitly
MaxCfgTrades == 2

\* the count of broadcast transactions whose confirmation did not succeed
\* stops at this value
MaxFailedBroadcasts == 1

\* config.maxDailyTrades; 0 stands for every falsy value (0, undefined)
CfgTrades == 0..MaxCfgTrades

\* config.amount, lamports: the shipped 0.1 SOL and the smallest trade size
Amounts == {1, 100000000}

\* config.minExpectedAmount; 0 stands for every falsy value (0, undefined)
MinExpecteds == {0, 1000000}

\* config.tradeCooldown, ms: the shipped one and one shorter than the retry delay
Cooldowns == {5000, 300000}

\* config.checkInterval, ms
Intervals == {60000}

\* quote.toTokenAmount as the aggregator sends it: a string, here a sequence
\* of characters.  Decimal strings around the threshold, the empty string
\* and a non-numeric string.
QuoteStrings ==
    { <<"0">>,
      <<"9","9","9","9","9","9">>,
      <<"1","0","0","0","0","0","0">>,
      <<"2","0","0","0","0","0","0">>,
      <<>>,
      <<"x">> }

----------------------------------------------------------------------------
(* Program constants *)

DefaultMaxDailyTrades == 50

\* 0.01 * 1000000000
FeeMargin == 10000000

\* sleep(30000) of the catch branch of the loop
RetryDelay == 30000

----------------------------------------------------------------------------
(* Pure helpers *)

\* a || d of JavaScript on numbers: 0 (and undefined, modelled as 0) is falsy
OrDefault(a, d) == IF a = 0 THEN d ELSE a

Digits == {"0","1","2","3","4","5","6","7","8","9"}

DigitVal(c) ==
    CASE c = "0" -> 0 [] c = "1" -> 1 [] c = "2" -> 2 [] c = "3" -> 3
      [] c = "4" -> 4 [] c = "5" -> 5 [] c = "6" -> 6 [] c = "7" -> 7
      [] c = "8" -> 8 [] c = "9" -> 9

NaN == [nan |-> TRUE, n |-> 0]

Num(k) == [nan |-> FALSE, n |-> k]

RECURSIVE ParseDigits(_, _, _)
\* the digits of s from position i on, accumulated into acc, up to the first
\* character that is not a digit
ParseDigits(s, i, acc) ==
    IF i > Len(s) \/ s[i] \notin Digits
    THEN acc
    ELSE ParseDigits(s, i + 1, acc * 10 + DigitVal(s[i]))

\* parseInt(s) of JavaScript on an unsigned string: the leading decimal
\* digits, NaN when there is none
ParseInt(s) ==
    IF Len(s) = 0 \/ s[1] \notin Digits
    THEN NaN
    ELSE Num(ParseDigits(s, 1, 0))

\* x >= m of JavaScript: false whenever x is NaN
JsGeq(x, m) == ~x.nan /\ x.n >= m

----------------------------------------------------------------------------
(* Responses of the external services *)

NoResp == [kind |-> "none", val |-> 0, amt |-> <<>>]

\* connection.getBalance: a balance in lamports, or a rejected promise
BalanceResponses ==
    { [kind |-> "ok", val |-> b, amt |-> <<>>] :
        b \in { 0, config.amount, config.amount + FeeMargin - 1,
                config.amount + FeeMargin, config.amount + FeeMargin + 1 } }
    \cup { [kind |-> "error", val |-> 0, amt |-> <<>>] }

\* GET /quote: a rejected request ("netError"), an envelope whose code is
\* not '0' ("apiError"), code '0' with an empty data array ("empty": data[0]
\* is undefined), or code '0' with a quote object
QuoteResponses ==
    { [kind |-> "ok", val |-> 0, amt |-> s] : s \in QuoteStrings }
    \cup { [kind |-> k, val |-> 0, amt |-> <<>>] : k \in {"netError", "apiError", "empty"} }

\* POST /swap: rejected request, code other than '0', or a transaction payload
SwapResponses == {"ok", "netError", "apiError"}

\* connection.sendRawTransaction: a signature or a rejected promise
SendResponses == {"ok", "error"}

\* connection.confirmTransaction: value.err null ("ok"), value.err set
\* ("failed"), or a rejected promise ("error", which includes the expiry of
\* the client's own confirmation timeout)
ConfirmResponses == {"ok", "failed", "error"}

----------------------------------------------------------------------------
(* Decision points of the code *)

\* the limit test written with > : one trade too many is let through
LimitReached_OffByOne == tradeCount > maxDailyTrades

\* L141: this.tradeCount >= this.maxDailyTrades
LimitReached == tradeCount >= maxDailyTrades

\* a catch branch that reports an unknown balance as a sufficient one
CheckBalanceCatch_Sufficient == config.amount + FeeMargin

\* L55-58: the catch branch of checkBalance returns 0
CheckBalanceCatch == 0

\* L49-59: checkBalance, the balance or what its catch branch returns
CheckBalance(resp) == IF resp.kind = "ok" THEN resp.val ELSE CheckBalanceCatch

\* L148: this.config.amount + (0.01 * 1000000000)
RequiredBalance == config.amount + FeeMargin

\* the comparison without the fee margin
InsufficientBalance_NoMargin(balance) == balance < config.amount

\* L150: balance < requiredBalance
InsufficientBalance(balance) == balance < RequiredBalance

\* L78-86: getSwapQuote returns data[0] when the request resolved with code
\* '0' and throws otherwise (its catch branch rethrows)
GetSwapQuoteThrows(resp) == resp.kind \in {"netError", "apiError"}

\* L162, L190: quote.toTokenAmount on data[0] === undefined is a TypeError
QuoteDerefThrows(resp) == resp.kind = "empty"

\* L163: this.config.minExpectedAmount || 0
MinExpected == OrDefault(config.minExpectedAmount, 0)

\* the threshold test dropped: any numeric quote qualifies
QuoteQualifies_NoMin(resp) == ~ParseInt(resp.amt).nan

\* the threshold test written with >
QuoteQualifies_Strict(resp) ==
    ~ParseInt(resp.amt).nan /\ ParseInt(resp.amt).n > MinExpected

\* L162-172: expectedPump >= minExpected
QuoteQualifies(resp) == JsGeq(ParseInt(resp.amt), MinExpected)

\* a catch branch that rethrows, as the one of getSwapQuote does
ShouldTradeCatch_Rethrow == "throw"

\* L173-176: the catch branch of shouldTrade returns false
ShouldTradeCatch == "false"

\* while (true): the running flag is not consulted
LoopCondition_Always == TRUE

\* L210: while (this.isRunning)
LoopCondition == isRunning

\* the trade branch taken whenever shouldTrade returned
DecisionTrue_Always == stResult \in {"true", "false"}

\* L216: if (shouldTrade)
DecisionTrue == stResult = "true"

\* executeSwap called with the quote shouldTrade fetched
ExecuteSwapArg_Stale(quote) == quoteResp

\* L184-192: executeSwap(quote), quote being the one performSwap fetched
ExecuteSwapArg(quote) == quote

\* the counter advanced by two
IncrementTradeCount_Twice == tradeCount + 2

\* the increment skipped once stop() was called
IncrementTradeCount_UnlessStopped ==
    IF isRunning THEN tradeCount + 1 ELSE tradeCount

\* L194: this.tradeCount++
IncrementTradeCount == tradeCount + 1

\* a catch branch that only logs: performSwap returns undefined
PerformSwapCatch_Swallow == "swallowed"

\* L199-202: the catch branch of performSwap rethrows
PerformSwapCatch == "throw"

\* the cooldown sleep taken with the poll interval
CooldownMs_Interval == config.checkInterval

\* L221: the sleep that follows a performSwap that returned
CooldownMs == config.tradeCooldown

\* the sleep at the end of a tick taken with the cooldown
IntervalMs_Cooldown == config.tradeCooldown

\* L227: the sleep at the end of a tick
IntervalMs == config.checkInterval

\* a catch branch that lets the error end the loop
LoopCatch_Terminates == pc' = "done" /\ timer' = 0

\* L229-233: the catch branch of the loop: sleep(30000), then the loop test
LoopCatch == pc' = "sleepRetry" /\ timer' = RetryDelay

Suspended == {"awaitBalance", "awaitQuoteST", "awaitQuotePS", "awaitSwapBuild",
              "awaitSend", "awaitConfirm", "sleepCooldown", "sleepInterval",
              "sleepRetry"}

----------------------------------------------------------------------------
\* L250-259: the configurations handed to the constructor.  A limit that is
\* set is combined with every amount, minimum and cooldown; a limit that is
\* not set (the default of L14 applies) with the shipped values of L253-257.
Configs ==
    { c \in [maxDailyTrades : CfgTrades, amount : Amounts,
             minExpectedAmount : MinExpecteds,
             tradeCooldown : Cooldowns, checkInterval : Intervals] :
        c.maxDailyTrades = 0
           => /\ c.amount = 100000000
              /\ c.minExpectedAmount = 1000000
              /\ c.tradeCooldown = 300000 }

Init ==
    /\ config \in Configs
    /\ maxDailyTrades = OrDefault(config.maxDailyTrades, DefaultMaxDailyTrades)
    /\ isRunning = FALSE
    /\ tradeCount = 0
    /\ pc = "notStarted"
    /\ timer = 0
    /\ balResp = NoResp
    /\ quoteResp = NoResp
    /\ stResult = "none"
    /\ swapQuote = NoResp
    /\ psResult = "none"
    /\ calls = <<>>
    /\ waitLog = <<>>
    /\ lastTick = "none"
    /\ stopRequested = FALSE
    /\ stopInEval = FALSE
    /\ stopAt = "none"
    /\ psCalls = 0
    /\ builtFrom = NoResp
    /\ confirmResp = "none"
    /\ evalsInFlight = 0
    /\ tradesInFlight = 0
    /\ confirmedOk = 0
    /\ failedBroadcasts = 0

----------------------------------------------------------------------------
(* start(), L206-235 *)

cfg == <<config, maxDailyTrades>>
stopHist == <<stopRequested, stopInEval, stopAt>>
tickHist == <<psCalls, builtFrom, confirmResp>>
runHist == <<confirmedOk, failedBroadcasts>>

\* L206-208
Start ==
    /\ pc = "notStarted"
    /\ isRunning' = TRUE
    /\ pc' = "whileTest"
    /\ UNCHANGED <<cfg, tradeCount, timer, balResp, quoteResp, stResult,
                   swapQuote, psResult, calls, waitLog, lastTick, stopHist,
                   tickHist, evalsInFlight, tradesInFlight, runHist>>

\* L210: while (this.isRunning); a new tick starts or start() returns
LoopTest ==
    /\ pc = "whileTest"
    /\ IF LoopCondition
       THEN /\ pc' = "stEntry"
            /\ balResp' = NoResp
            /\ quoteResp' = NoResp
            /\ swapQuote' = NoResp
            /\ stResult' = "none"
            /\ psResult' = "none"
            /\ calls' = <<>>
            /\ stopInEval' = FALSE
            /\ psCalls' = 0
            /\ builtFrom' = NoResp
            /\ confirmResp' = "none"
       ELSE /\ pc' = "done"
            /\ UNCHANGED <<balResp, quoteResp, swapQuote, stResult, psResult,
                           calls, stopInEval, tickHist>>
    /\ UNCHANGED <<cfg, isRunning, tradeCount, timer, waitLog, lastTick,
                   stopRequested, stopAt, evalsInFlight, tradesInFlight,
                   runHist>>

\* L138-147, L51: shouldTrade up to its first await
ShouldTradeBegin ==
    /\ pc = "stEntry"
    /\ IF LimitReached
       THEN /\ stResult' = "false"
            /\ pc' = "stReturn"
            /\ calls' = calls
            /\ evalsInFlight' = evalsInFlight
       ELSE /\ calls' = Append(calls, "getBalance")
            /\ pc' = "awaitBalance"
            /\ stResult' = stResult
            /\ evalsInFlight' = evalsInFlight + 1
    /\ UNCHANGED <<cfg, isRunning, tradeCount, timer, balResp, quoteResp,
                   swapQuote, psResult, waitLog, lastTick, stopHist,
                   tickHist, tradesInFlight, runHist>>

\* L51-58, L147-160, L64: getBalance settles; checkBalance returns; the
\* balance is compared and the quote is requested
BalanceReturn ==
    /\ pc = "awaitBalance"
    /\ \E r \in BalanceResponses :
        /\ balResp' = r
        /\ IF InsufficientBalance(CheckBalance(r))
           THEN /\ stResult' = "false"
                /\ pc' = "stReturn"
                /\ calls' = calls
                /\ evalsInFlight' = evalsInFlight - 1
           ELSE /\ calls' = Append(calls, "quote")
                /\ pc' = "awaitQuoteST"
                /\ stResult' = stResult
                /\ evalsInFlight' = evalsInFlight
    /\ UNCHANGED <<cfg, isRunning, tradeCount, timer, quoteResp, swapQuote,
                   psResult, waitLog, lastTick, stopHist, tickHist,
                   tradesInFlight, runHist>>

\* L78-86, L162-176: the quote request of shouldTrade settles
QuoteReturnST ==
    /\ pc = "awaitQuoteST"
    /\ \E r \in QuoteResponses :
        /\ quoteResp' = r
        /\ stResult' = IF GetSwapQuoteThrows(r) \/ QuoteDerefThrows(r)
                       THEN ShouldTradeCatch
                       ELSE IF QuoteQualifies(r) THEN "true" ELSE "false"
    /\ pc' = "stReturn"
    /\ evalsInFlight' = evalsInFlight - 1
    /\ UNCHANGED <<cfg, isRunning, tradeCount, timer, balResp, swapQuote,
                   psResult, calls, waitLog, lastTick, stopHist, tickHist,
                   tradesInFlight, runHist>>

\* performSwap called without await: the loop goes on to the cooldown while
\* the attempt is still pending
LoopBranch_NoAwait ==
    /\ pc = "stReturn"
    /\ CASE stResult = "throw" ->
              /\ LoopCatch
              /\ waitLog' = <<>>
              /\ lastTick' = "evalThrow"
              /\ calls' = calls
              /\ UNCHANGED <<psCalls, tradesInFlight>>
         [] stResult # "throw" /\ DecisionTrue ->
              /\ calls' = Append(calls, "quote")
              /\ psCalls' = psCalls + 1
              /\ tradesInFlight' = tradesInFlight + 1
              /\ pc' = "sleepCooldown"
              /\ timer' = CooldownMs
              /\ waitLog' = <<>>
              /\ lastTick' = lastTick
         [] OTHER ->
              /\ pc' = "sleepInterval"
              /\ timer' = IntervalMs
              /\ waitLog' = <<>>
              /\ lastTick' = "noTrade"
              /\ calls' = calls
              /\ UNCHANGED <<psCalls, tradesInFlight>>
    /\ UNCHANGED <<cfg, isRunning, tradeCount, balResp, quoteResp, stResult,
                   swapQuote, psResult, stopHist, builtFrom, confirmResp,
                   evalsInFlight, runHist>>

\* L214-232: await this.shouldTrade() resumes; the branch on its result
LoopBranch ==
    /\ pc = "stReturn"
    /\ CASE stResult = "throw" ->
              \* L229-232: shouldTrade threw
              /\ LoopCatch
              /\ waitLog' = <<>>
              /\ lastTick' = "evalThrow"
              /\ calls' = calls
              /\ UNCHANGED <<psCalls, tradesInFlight>>
         [] stResult # "throw" /\ DecisionTrue ->
              \* L217, L180-188, L64: performSwap up to its first await
              /\ calls' = Append(calls, "quote")
              /\ pc' = "awaitQuotePS"
              /\ psCalls' = psCalls + 1
              /\ tradesInFlight' = tradesInFlight + 1
              /\ UNCHANGED <<timer, waitLog, lastTick>>
         [] OTHER ->
              \* L222-227
              /\ pc' = "sleepInterval"
              /\ timer' = IntervalMs
              /\ waitLog' = <<>>
              /\ lastTick' = "noTrade"
              /\ calls' = calls
              /\ UNCHANGED <<psCalls, tradesInFlight>>
    /\ UNCHANGED <<cfg, isRunning, tradeCount, balResp, quoteResp, stResult,
                   swapQuote, psResult, stopHist, builtFrom, confirmResp,
                   evalsInFlight, runHist>>

----------------------------------------------------------------------------
(* performSwap(), L180-203, and executeSwap(), L90-135 *)

\* L192-202, L218-221, L229-232: performSwap completes, executeSwap having
\* returned a signature (ok) or an error having been thrown below it; the
\* loop goes on to the cooldown or to its catch branch
PerformSwapEnd(ok) ==
    LET completion == IF ok THEN "ok" ELSE PerformSwapCatch
    IN  /\ tradeCount' = IF ok THEN IncrementTradeCount ELSE tradeCount
        /\ psResult' = completion
        /\ lastTick' = IF ok THEN "tradeOk" ELSE "tradeFail"
        /\ waitLog' = <<>>
        /\ tradesInFlight' = tradesInFlight - 1
        /\ IF completion = "throw"
           THEN LoopCatch
           ELSE pc' = "sleepCooldown" /\ timer' = CooldownMs

\* L78-86, L190-192, L92: the quote request of performSwap settles
QuoteReturnPS ==
    /\ pc = "awaitQuotePS"
    /\ \E r \in QuoteResponses :
        /\ swapQuote' = r
        /\ IF GetSwapQuoteThrows(r) \/ QuoteDerefThrows(r)
           THEN /\ PerformSwapEnd(FALSE)
                /\ calls' = calls
                /\ builtFrom' = builtFrom
           ELSE /\ calls' = Append(calls, "swap")
                /\ builtFrom' = ExecuteSwapArg(r)
                /\ pc' = "awaitSwapBuild"
                /\ UNCHANGED <<tradeCount, psResult, lastTick, waitLog, timer,
                               tradesInFlight>>
    /\ UNCHANGED <<cfg, isRunning, balResp, quoteResp, stResult, stopHist,
                   psCalls, confirmResp, evalsInFlight, runHist>>

\* L107-119: the swap-build request settles; the transaction is signed and sent
SwapBuildReturn ==
    /\ pc = "awaitSwapBuild"
    /\ \E r \in SwapResponses :
        IF r = "ok"
        THEN /\ calls' = Append(calls, "send")
             /\ pc' = "awaitSend"
             /\ UNCHANGED <<tradeCount, psResult, lastTick, waitLog, timer,
                            tradesInFlight>>
        ELSE /\ PerformSwapEnd(FALSE)
             /\ calls' = calls
    /\ UNCHANGED <<cfg, isRunning, balResp, quoteResp, stResult, swapQuote,
                   stopHist, tickHist, evalsInFlight, runHist>>

\* L116-124: sendRawTransaction settles; the confirmation is awaited
SendReturn ==
    /\ pc = "awaitSend"
    /\ \E r \in SendResponses :
        IF r = "ok"
        THEN /\ calls' = Append(calls, "confirm")
             /\ pc' = "awaitConfirm"
             /\ UNCHANGED <<tradeCount, psResult, lastTick, waitLog, timer,
                            tradesInFlight>>
        ELSE /\ PerformSwapEnd(FALSE)
             /\ calls' = calls
    /\ UNCHANGED <<cfg, isRunning, balResp, quoteResp, stResult, swapQuote,
                   stopHist, tickHist, evalsInFlight, runHist>>

\* L124-134, L194-198: confirmTransaction settles
ConfirmReturn ==
    /\ pc = "awaitConfirm"
    /\ \E r \in ConfirmResponses :
        /\ PerformSwapEnd(r = "ok")
        /\ confirmResp' = r
        /\ confirmedOk' = IF r = "ok" THEN confirmedOk + 1 ELSE confirmedOk
        /\ failedBroadcasts' =
              IF r # "ok" /\ failedBroadcasts < MaxFailedBroadcasts
              THEN failedBroadcasts + 1
              ELSE failedBroadcasts
    /\ UNCHANGED <<cfg, isRunning, balResp, quoteResp, stResult, swapQuote,
                   calls, stopHist, psCalls, builtFrom, evalsInFlight>>

----------------------------------------------------------------------------
(* sleep(), L244-246, and what follows each sleep in start() *)

\* L221-227: the cooldown elapsed; the interval sleep starts
CooldownElapsed ==
    /\ pc = "sleepCooldown"
    /\ waitLog' = Append(waitLog, timer)
    /\ pc' = "sleepInterval"
    /\ timer' = IntervalMs
    /\ UNCHANGED <<cfg, isRunning, tradeCount, balResp, quoteResp, stResult,
                   swapQuote, psResult, calls, lastTick, stopHist, tickHist,
                   evalsInFlight, tradesInFlight, runHist>>

\* L227, L234: the interval elapsed; back to the loop test
IntervalElapsed ==
    /\ pc = "sleepInterval"
    /\ waitLog' = Append(waitLog, timer)
    /\ pc' = "whileTest"
    /\ timer' = 0
    /\ UNCHANGED <<cfg, isRunning, tradeCount, balResp, quoteResp, stResult,
                   swapQuote, psResult, calls, lastTick, stopHist, tickHist,
                   evalsInFlight, tradesInFlight, runHist>>

\* L232-234: the retry delay elapsed; back to the loop test
RetryElapsed ==
    /\ pc = "sleepRetry"
    /\ waitLog' = Append(waitLog, timer)
    /\ pc' = "whileTest"
    /\ timer' = 0
    /\ UNCHANGED <<cfg, isRunning, tradeCount, balResp, quoteResp, stResult,
                   swapQuote, psResult, calls, lastTick, stopHist, tickHist,
                   evalsInFlight, tradesInFlight, runHist>>

----------------------------------------------------------------------------
(* stop(), L238-241: runs while start() is suspended at an await *)

Stop ==
    /\ pc \in Suspended
    /\ isRunning' = FALSE
    /\ stopRequested' = TRUE
    /\ stopInEval' = (stopInEval \/ pc \in {"awaitBalance", "awaitQuoteST"})
    /\ stopAt' = IF stopAt = "none" THEN pc ELSE stopAt
    /\ UNCHANGED <<cfg, tradeCount, pc, timer, balResp, quoteResp, stResult,
                   swapQuote, psResult, calls, waitLog, lastTick, tickHist,
                   evalsInFlight, tradesInFlight, runHist>>

----------------------------------------------------------------------------
Next ==
    \/ Start
    \/ LoopTest
    \/ ShouldTradeBegin
    \/ BalanceReturn
    \/ QuoteReturnST
    \/ LoopBranch
    \/ QuoteReturnPS
    \/ SwapBuildReturn
    \/ SendReturn
    \/ ConfirmReturn
    \/ CooldownElapsed
    \/ IntervalElapsed
    \/ RetryElapsed
    \/ Stop

Spec == Init /\ [][Next]_vars

\* L258: the constructor called with a configuration that sets
\* maxDailyTrades, as the shipped botConfig does
InitConfigured == Init /\ config.maxDailyTrades # 0

\* the steps of start(): every continuation of the loop
LoopStep ==
    \/ Start
    \/ LoopTest
    \/ ShouldTradeBegin
    \/ BalanceReturn
    \/ QuoteReturnST
    \/ LoopBranch
    \/ QuoteReturnPS
    \/ SwapBuildReturn
    \/ SendReturn
    \/ ConfirmReturn
    \/ CooldownElapsed
    \/ IntervalElapsed
    \/ RetryElapsed

\* every pending timer fires and every pending request settles, after which
\* the event loop resumes start(); stop() is under no obligation to be called
FairSpec == InitConfigured /\ [][Next]_vars /\ WF_vars(LoopStep)

TypeOK ==
    /\ isRunning \in BOOLEAN
    /\ tradeCount \in Nat
    /\ pc \in Suspended \cup {"notStarted", "whileTest", "stEntry", "stReturn", "done"}
    /\ stResult \in {"none", "true", "false", "throw"}
    /\ psResult \in {"none", "ok", "throw"}
    /\ lastTick \in {"none", "noTrade", "tradeOk", "tradeFail"}
    /\ Len(calls) <= 6
    /\ Len(waitLog) <= 2
    /\ psCalls \in 0..1
    /\ evalsInFlight \in 0..1
    /\ tradesInFlight \in 0..1
    /\ confirmResp \in {"none"} \cup ConfirmResponses
    /\ confirmedOk \in Nat
    /\ failedBroadcasts \in 0..MaxFailedBroadcasts
    /\ stopAt \in Suspended \cup {"none"}

----------------------------------------------------------------------------
(* Positions of start() *)

\* shouldTrade of the current tick is running or about to run
Evaluating == pc \in {"stEntry", "awaitBalance", "awaitQuoteST"}

\* performSwap of the current tick is in flight
Trading == pc \in {"awaitQuotePS", "awaitSwapBuild", "awaitSend", "awaitConfirm"}

\* a decimal string: not empty, digits only
IsDecimal(s) == Len(s) > 0 /\ \A i \in 1..Len(s) : s[i] \in Digits

RECURSIVE Pow10(_)
Pow10(k) == IF k = 0 THEN 1 ELSE 10 * Pow10(k - 1)

RECURSIVE WeightedSum(_, _)
\* the sum of the digits of s up to position k, each weighted by its place
WeightedSum(s, k) ==
    IF k = 0 THEN 0
    ELSE DigitVal(s[k]) * Pow10(Len(s) - k) + WeightedSum(s, k - 1)

\* the number a decimal string denotes
DecimalValue(s) == WeightedSum(s, Len(s))

----------------------------------------------------------------------------
(* Properties *)

\* C1: in every reachable state of a run of start(), tradeCount does not
\* exceed maxDailyTrades, whatever the outcomes of the balance, quote,
\* swap-build, broadcast and confirmation requests.
C1_TradeCountWithinLimit == tradeCount <= maxDailyTrades

\* the trade that reaches the limit has been counted
C1_Witness ==
    pc = "sleepCooldown" /\ psResult = "ok" /\ tradeCount = maxDailyTrades

\* C2: when performSwap succeeds, tradeCount grows by exactly 1 and the loop
\* sleeps for config.tradeCooldown; that sleep has elapsed in full before
\* the loop does anything else (evaluation, trade attempt or return).
C2_SuccessCountsThenCooldown ==
    /\ [][(Trading /\ lastTick' = "tradeOk" /\ ~Trading')
            => /\ tradeCount' = tradeCount + 1
               /\ pc' = "sleepCooldown"
               /\ timer' = config.tradeCooldown]_vars
    /\ [][(pc = "sleepCooldown" /\ pc' # pc)
            => /\ pc' = "sleepInterval"
               /\ waitLog' = <<config.tradeCooldown>>]_vars
    /\ []((lastTick = "tradeOk" /\ pc # "sleepCooldown")
            => /\ Len(waitLog) >= 1
               /\ waitLog[1] = config.tradeCooldown)

\* the evaluation that follows a successful trade starts after the cooldown
C2_Witness ==
    /\ pc = "stEntry"
    /\ lastTick = "tradeOk"
    /\ tradeCount = 1
    /\ waitLog = <<config.tradeCooldown, config.checkInterval>>

\* C3: when performSwap fails at any step, tradeCount is unchanged, the
\* cooldown sleep is not taken, and the only wait before the next evaluation
\* is the fixed 30000 ms delay.
C3_FailureKeepsCountShortWait ==
    /\ [][(Trading /\ ~Trading' /\ lastTick' = "tradeFail")
            => /\ tradeCount' = tradeCount
               /\ pc' = "sleepRetry"
               /\ timer' = 30000]_vars
    /\ [][(pc = "sleepRetry" /\ pc' # pc)
            => pc' = "whileTest" /\ waitLog' = <<30000>>]_vars
    /\ []((lastTick = "tradeFail" /\ pc # "sleepRetry") => waitLog = <<30000>>)

\* the evaluation that follows a failed trade starts after the 30 s delay only
C3_Witness ==
    /\ pc = "stEntry"
    /\ lastTick = "tradeFail"
    /\ psResult = "none"
    /\ tradeCount = 0
    /\ waitLog = <<30000>>

\* C4: shouldTrade never throws: a failed balance lookup or a failed quote
\* lookup makes it return false, and the catch branch of the loop is never
\* entered because of shouldTrade.
C4_ShouldTradeNeverThrows ==
    /\ stResult # "throw"
    /\ lastTick # "evalThrow"
    /\ (pc = "stReturn"
          /\ (balResp.kind = "error" \/ quoteResp.kind \in {"netError", "apiError", "empty"}))
       => stResult = "false"

\* a quote request of shouldTrade was rejected and shouldTrade returned false
C4_Witness ==
    /\ pc = "sleepInterval"
    /\ quoteResp.kind = "netError"
    /\ stResult = "false"
    /\ lastTick = "noTrade"

\* C5: when tradeCount >= maxDailyTrades at the start of shouldTrade, it
\* returns false and issues no network request (no balance lookup, no quote
\* request).
C5_LimitRefusesWithoutCalls ==
    /\ (pc = "stReturn" /\ tradeCount >= maxDailyTrades)
          => /\ stResult = "false"
             /\ calls = <<>>
             /\ balResp.kind = "none"
             /\ quoteResp.kind = "none"
    /\ pc \in {"awaitBalance", "awaitQuoteST"} => tradeCount < maxDailyTrades

\* shouldTrade returned at the limit
C5_Witness ==
    /\ pc = "stReturn"
    /\ tradeCount = maxDailyTrades
    /\ stResult = "false"
    /\ calls = <<>>

\* C6: for every balance below amount + 10,000,000, shouldTrade returns
\* false and no quote request is issued in that evaluation.
C6_LowBalanceRefusesWithoutQuote ==
    (balResp.kind = "ok" /\ balResp.val < config.amount + 10000000)
       => /\ pc # "awaitQuoteST"
          /\ stResult = "false"
          /\ quoteResp.kind = "none"
          /\ calls = <<"getBalance">>

\* the balance is one lamport short of amount + margin
C6_Witness ==
    /\ pc = "stReturn"
    /\ balResp.kind = "ok"
    /\ balResp.val = config.amount + 10000000 - 1
    /\ stResult = "false"

\* C7: when the balance lookup fails, the decision of the tick is false and
\* no quote request is made in it, for every configured amount.
C7_BalanceFailureIsFalse ==
    balResp.kind = "error"
       => /\ pc # "awaitQuoteST"
          /\ ~Trading
          /\ stResult = "false"
          /\ psResult = "none"
          /\ quoteResp.kind = "none"
          /\ calls = <<"getBalance">>

\* the balance lookup failed, for the shipped amount
C7_Witness ==
    /\ pc = "stReturn"
    /\ balResp.kind = "error"
    /\ config.amount = 100000000
    /\ stResult = "false"

\* C8: shouldTrade returns true exactly when tradeCount < maxDailyTrades,
\* the balance lookup succeeded with balance >= amount + 10,000,000, the
\* quote lookup succeeded and the quoted destination amount is at least the
\* configured minimum; otherwise it returns false.
C8_DecisionIff ==
    pc = "stReturn"
       => /\ stResult \in {"true", "false"}
          /\ stResult = "true"
               <=> /\ tradeCount < maxDailyTrades
                   /\ balResp.kind = "ok"
                   /\ balResp.val >= config.amount + 10000000
                   /\ quoteResp.kind = "ok"
                   /\ IsDecimal(quoteResp.amt)
                   /\ DecimalValue(quoteResp.amt) >= config.minExpectedAmount

\* a true decision with the balance and the quote both exactly at their thresholds
C8_Witness ==
    /\ pc = "stReturn"
    /\ stResult = "true"
    /\ balResp.val = config.amount + 10000000
    /\ config.minExpectedAmount = 1000000
    /\ DecimalValue(quoteResp.amt) = 1000000

\* C9: when stop() is called while shouldTrade of a tick is in flight, the
\* loop does not begin performSwap in that tick.
C9_NoTradeAfterStopInEval == stopInEval => (~Trading /\ psResult = "none")

\* C10: an error escaping a tick is caught by the loop and followed by the
\* 30000 ms delay, after which the loop test is evaluated again; start()
\* returns only after stop() was called.
C10_LoopEndsOnlyOnStop ==
    /\ [][(psResult' = "throw" /\ psResult # "throw")
            => pc' = "sleepRetry" /\ timer' = 30000]_vars
    /\ [][(pc = "sleepRetry" /\ pc' # pc) => pc' = "whileTest"]_vars
    /\ [][(pc = "whileTest" /\ pc' # pc)
            => pc' = (IF isRunning THEN "stEntry" ELSE "done")]_vars
    /\ [](pc = "done" => (stopRequested /\ ~isRunning))

\* a tick threw, the delay elapsed and the next tick is running, no stop asked
C10_Witness ==
    /\ pc = "awaitBalance"
    /\ lastTick = "tradeFail"
    /\ waitLog = <<30000>>
    /\ ~stopRequested

\* the requests of one trade attempt, in the order of L184, L92, L116, L124
TradeSteps == <<"quote", "swap", "send", "confirm">>

\* the requests issued in this tick after the two of shouldTrade
TradeCalls == IF Len(calls) <= 2 THEN <<>> ELSE SubSeq(calls, 3, Len(calls))

\* C11: in each tick performSwap is invoked exactly once when shouldTrade
\* returned true and not at all when it returned false; from tradeCount = 0,
\* amount 100000000, minimum 1000000 and a quote of 2000000 the decision is
\* true and a successful execution makes tradeCount 1.
C11_SwapInvokedOncePerTrueDecision ==
    /\ []((stResult = "true" /\ pc # "stReturn") => psCalls = 1)
    /\ []((stResult # "true" \/ pc = "stReturn") => psCalls = 0)
    /\ []((/\ pc = "stReturn"
           /\ config.amount = 100000000
           /\ config.minExpectedAmount = 1000000
           /\ quoteResp.kind = "ok"
           /\ quoteResp.amt = <<"2","0","0","0","0","0","0">>)
            => stResult = "true")
    /\ [][(/\ tradeCount = 0
           /\ config.amount = 100000000
           /\ config.minExpectedAmount = 1000000
           /\ quoteResp.amt = <<"2","0","0","0","0","0","0">>
           /\ pc = "awaitConfirm"
           /\ confirmResp' = "ok")
            => tradeCount' = 1 /\ psCalls' = 1]_vars

\* the scenario of the claim has run to the cooldown
C11_Witness ==
    /\ pc = "sleepCooldown"
    /\ config.amount = 100000000
    /\ config.minExpectedAmount = 1000000
    /\ quoteResp.amt = <<"2","0","0","0","0","0","0">>
    /\ psCalls = 1
    /\ confirmResp = "ok"
    /\ tradeCount = 1

\* C12: a trade attempt issues its requests in the order quote, swap build,
\* broadcast, confirmation, each at most once; the step that fails ends the
\* attempt and nothing is requested after it; the swap is built from the
\* quote fetched inside the attempt, not from the one of shouldTrade.
C12_StepsInOrderNoRetry ==
    /\ [](psCalls = 0 => TradeCalls = <<>>)
    /\ [](psCalls = 1
            => /\ Len(TradeCalls) \in 1..4
               /\ TradeCalls = SubSeq(TradeSteps, 1, Len(TradeCalls)))
    /\ []((pc = "awaitQuotePS" => Len(TradeCalls) = 1)
          /\ (pc = "awaitSwapBuild" => Len(TradeCalls) = 2)
          /\ (pc = "awaitSend" => Len(TradeCalls) = 3)
          /\ (pc = "awaitConfirm" => Len(TradeCalls) = 4))
    /\ [](psResult = "ok" => (Len(TradeCalls) = 4 /\ confirmResp = "ok"))
    /\ [](confirmResp \in {"failed", "error"} => psResult = "throw")
    /\ [](swapQuote.kind \in {"netError", "apiError", "empty"}
            => (Len(TradeCalls) = 1 /\ psResult = "throw"))
    /\ [](Len(TradeCalls) >= 2 => (swapQuote.kind = "ok" /\ builtFrom = swapQuote))
    /\ [][(Trading /\ ~Trading') => calls' = calls]_vars
    /\ [][(psResult # "none" /\ calls' # calls) => pc = "whileTest"]_vars

\* a confirmation is awaited for a swap built from a fresh quote that
\* differs from the quote of shouldTrade
C12_Witness ==
    /\ pc = "awaitConfirm"
    /\ calls = <<"getBalance", "quote", "quote", "swap", "send", "confirm">>
    /\ builtFrom = swapQuote
    /\ swapQuote # quoteResp

\* C13: at most one activity is in flight at any moment: a call of
\* shouldTrade never overlaps another one or a call of performSwap, and two
\* calls of performSwap never overlap, stop() being called at any await.
C13_OneActivityInFlight ==
    /\ evalsInFlight + tradesInFlight <= 1
    /\ pc \in {"awaitBalance", "awaitQuoteST"}
          => (evalsInFlight = 1 /\ tradesInFlight = 0)
    /\ Trading => (tradesInFlight = 1 /\ evalsInFlight = 0)
    /\ pc \in {"sleepCooldown", "sleepInterval", "sleepRetry", "whileTest", "done"}
          => (evalsInFlight = 0 /\ tradesInFlight = 0)

\* a trade attempt is in flight, alone, after stop() was called during the
\* evaluation of the same tick
C13_Witness ==
    /\ pc = "awaitSend"
    /\ tradesInFlight = 1
    /\ evalsInFlight = 0
    /\ stopAt = "awaitQuoteST"

\* C14: stop() called while a trade attempt is in flight does not abort it:
\* the attempt keeps its position, runs to the outcome of the confirmation
\* and tradeCount is updated by that outcome before start() returns.
C14_StopDoesNotAbortTrade ==
    /\ [][(Trading /\ isRunning /\ ~isRunning')
            => /\ pc' = pc
               /\ calls' = calls
               /\ tradeCount' = tradeCount
               /\ tradesInFlight' = tradesInFlight]_vars
    /\ [][Trading => pc' \in {"awaitQuotePS", "awaitSwapBuild", "awaitSend",
                              "awaitConfirm", "sleepCooldown", "sleepRetry"}]_vars
    /\ [][(pc = "awaitConfirm" /\ pc' # pc)
            => /\ confirmResp' \in {"ok", "failed", "error"}
               /\ tradeCount' = tradeCount + (IF confirmResp' = "ok" THEN 1 ELSE 0)]_vars
    /\ []((pc = "done" /\ stopAt \in {"awaitQuotePS", "awaitSwapBuild",
                                      "awaitSend", "awaitConfirm"})
            => /\ psResult \in {"ok", "throw"}
               /\ tradesInFlight = 0
               /\ (stopAt = "awaitConfirm" => confirmResp # "none")
               /\ (confirmResp = "ok" <=> psResult = "ok"))

\* stop() came between broadcast and confirmation, the confirmation
\* succeeded, the trade was counted and start() returned
C14_Witness ==
    /\ pc = "done"
    /\ stopAt = "awaitConfirm"
    /\ confirmResp = "ok"
    /\ psResult = "ok"
    /\ tradeCount = 1

\* C15: stop() can be called at every await of the loop and only clears the
\* running flag; after it no new tick (no new evaluation) starts, and if the
\* pending waits end and the loop is resumed, start() eventually returns.
C15_StopEndsTheLoop ==
    /\ [](pc \in Suspended => ENABLED Stop)
    /\ [][(stopRequested' /\ ~stopRequested)
            => (~isRunning' /\ pc' = pc /\ tradeCount' = tradeCount)]_vars
    /\ [](stopRequested => ~isRunning)
    /\ [][stopRequested => (pc' # "stEntry" /\ evalsInFlight' <= evalsInFlight)]_vars
    /\ (stopRequested ~> pc = "done")

\* stop() was called during the cooldown sleep and start() has returned
C15_Witness ==
    /\ pc = "done"
    /\ stopAt = "sleepCooldown"
    /\ ~isRunning

\* C17, as claimed: every evaluation, the first one and the one after a
\* failed trade included, starts right after a sleep of the poll interval.
C17_EvalAfterPollSleep ==
    pc = "stEntry"
       => (Len(waitLog) >= 1 /\ waitLog[Len(waitLog)] = config.checkInterval)

\* C17, amended: the first evaluation of a run starts without any sleep; an
\* evaluation after a tick without trade starts after the poll interval, one
\* after a successful trade after the cooldown followed by the poll
\* interval, and one after a failed trade after the 30000 ms delay alone.
C17_EvalAfterItsWait ==
    pc = "stEntry"
       => waitLog = CASE lastTick = "none" -> <<>>
                      [] lastTick = "noTrade" -> <<config.checkInterval>>
                      [] lastTick = "tradeOk" ->
                            <<config.tradeCooldown, config.checkInterval>>
                      [] OTHER -> <<30000>>

\* an evaluation starts after a tick without trade and one poll interval
C17_Witness ==
    /\ pc = "stEntry"
    /\ lastTick = "noTrade"
    /\ waitLog = <<config.checkInterval>>
    /\ tradeCount = 0

\* C18: tradeCount never decreases, changes only by +1 and only in the step
\* in which the confirmation of a trade attempt reports success; it equals
\* the number of attempts of the run confirmed successfully, and
\* shouldTrade, stop(), the sleeps and failed attempts leave it unchanged.
C18_TradeCountCountsConfirmed ==
    /\ [](tradeCount = confirmedOk)
    /\ [][tradeCount' >= tradeCount]_vars
    /\ [][tradeCount' # tradeCount
            => /\ tradeCount' = tradeCount + 1
               /\ pc = "awaitConfirm"
               /\ confirmResp' = "ok"]_vars
    /\ [][(\/ pc \notin {"awaitConfirm"}
           \/ confirmResp' # "ok"
           \/ pc' = pc)
            => tradeCount' = tradeCount]_vars

\* two attempts were confirmed and one broadcast was not
C18_Witness ==
    /\ pc = "sleepCooldown"
    /\ tradeCount = 2
    /\ confirmedOk = 2
    /\ failedBroadcasts = 1

\* C19, as claimed: every swap that is built and broadcast is built from a
\* quote whose destination amount is at least the configured minimum.
C19_ExecutedQuoteMeetsMinimum ==
    Len(TradeCalls) >= 3
       => /\ IsDecimal(builtFrom.amt)
          /\ DecimalValue(builtFrom.amt) >= config.minExpectedAmount

\* C19, amended: every swap that is built and broadcast belongs to a tick
\* whose decision quote, the one shouldTrade fetched, had a destination
\* amount of at least the configured minimum; the fresh quote the swap is
\* built from is not compared with the minimum.
C19_DecisionQuoteMeetsMinimum ==
    psCalls = 1
       => /\ stResult = "true"
          /\ quoteResp.kind = "ok"
          /\ IsDecimal(quoteResp.amt)
          /\ DecimalValue(quoteResp.amt) >= config.minExpectedAmount

\* a swap built from a fresh quote of 0 was broadcast after a decision
\* quote of 2000000, the minimum being 1000000
C19_Witness ==
    /\ pc = "awaitConfirm"
    /\ config.minExpectedAmount = 1000000
    /\ quoteResp.amt = <<"2","0","0","0","0","0","0">>
    /\ builtFrom.amt = <<"0">>

\* C20, as claimed: the number of transactions broadcast in a run never
\* exceeds maxDailyTrades, whatever their confirmation outcomes.
C20_BroadcastsWithinLimit ==
    confirmedOk + failedBroadcasts + (IF pc = "awaitConfirm" THEN 1 ELSE 0)
       <= maxDailyTrades

\* C20, amended: the number of broadcast transactions whose confirmation
\* reported success never exceeds maxDailyTrades, and a transaction is
\* broadcast only while fewer than maxDailyTrades have been confirmed;
\* broadcasts whose confirmation failed are not counted.
C20_ConfirmedBroadcastsWithinLimit ==
    /\ confirmedOk <= maxDailyTrades
    /\ pc \in {"awaitSend", "awaitConfirm"} => confirmedOk < maxDailyTrades

\* a broadcast is awaiting confirmation that, with the unconfirmed one
\* before it, takes the broadcasts of the run past maxDailyTrades
C20_Witness ==
    /\ pc = "awaitConfirm"
    /\ failedBroadcasts = 1
    /\ confirmedOk = maxDailyTrades - 1

====
